---- MODULE Spec2Model ----
(***************************************************************************)
(* A model of wfs-rs: the WAD virtual filesystem (src/src/fs/mod.rs), its   *)
(* image conversion (src/src/fs/util.rs) and the startup loop               *)
(* (src/src/main.rs).                                                       *)
(*                                                                          *)
(* Handles are the indices of the inode vector: handle h is inodes[h + 1]   *)
(* here, because TLA+ sequences start at 1 and Rust vectors at 0.           *)
(* Option<T> is a sequence of length at most one: <<>> is None, <<x>> is    *)
(* Some(x).                                                                 *)
(***************************************************************************)
EXTENDS Integers, Sequences, FiniteSets, TLC

VARIABLES
    inodes,     \* INodes.inner: the vector of INode {name, parent, data}
    entries,    \* how many archive entries the loop has handed to workers
    result,     \* main: the last append_entries call: its io::Result, or "running"
    tasks,      \* append_entries: the rayon workers of the archive in progress
    panicked,   \* a worker hit unimplemented!() (or read overflowed in debug)
    phase,      \* "build" (main's loop), "serve" (mount2), "aborted" (panic)
    ingested,   \* history: the records whose worker ran to its end
    decoded,    \* history: every pic2img call, its input and its output
    reply       \* the last filesystem request and the reply it got

vars == <<inodes, entries, result, tasks, panicked, phase, ingested, decoded, reply>>

----------------------------------------------------------------------------
(* Bounds of the model *)

\* entries of one archive
MaxRecords == 2
\* entries of all the archives of the command line together
MaxEntries == 2
\* the caller's readdir buffer, in directory entries
MaxCapacity == 2
\* width of usize and of the i64 offset, scaled down from 64 bits.  A Vec holds
\* at most isize::MAX bytes: the width leaves every content of the model
\* shorter than 2 ^ (UsizeBits - 1), so that no negative offset, cast to usize,
\* falls inside a file
UsizeBits == 5

(* Program constants *)

\* goldsrc_rs::texture::MIP_LEVELS
MIP_LEVELS == 4
\* .take(5) in readdir
READDIR_TAKE == 5

DEFAULT_IMAGE_FMT == "tga"

Modulus == 2 ^ UsizeBits
\* the values of an i64 offset, scaled: the signed integers of UsizeBits bits
I64 == (0 - (Modulus \div 2)) .. ((Modulus \div 2) - 1)
\* the values of a u32 size, scaled: half the bits of a non-negative offset
U32 == 0 .. (2 ^ ((UsizeBits - 1) \div 2) - 1)

None == <<>>
Some(x) == <<x>>
IsSome(o) == Len(o) = 1
Unwrap(o) == o[1]

----------------------------------------------------------------------------
(* util.rs: names and the image conversion *)

mip_level_name(level) == "mip_" \o ToString(level) \o "." \o DEFAULT_IMAGE_FMT

pic_name(name) == name \o "." \o DEFAULT_IMAGE_FMT

\* the closure of flat_map: one palette entry to one RGBA pixel
Pixel(rgb) ==
    IF rgb[1] = 255 \/ rgb[2] = 255 \/ rgb[3] = 255
    THEN <<0, 0, 0, 0>>
    ELSE <<rgb[1], rgb[2], rgb[3], 255>>

\* indices.iter().flat_map(..).collect(): the RGBA bytes, 4 per index
RECURSIVE PixelData(_, _)
PixelData(indices, palette) ==
    IF indices = <<>> THEN <<>>
    ELSE Pixel(palette[Head(indices) + 1]) \o PixelData(Tail(indices), palette)

\* img.write_to(.., ImageFormat::Tga): a header carrying the dimensions, then
\* the pixels of the image in the file's B, G, R, A order.  The image crate is
\* outside the repository; its 18-byte header is cut to the two dimensions.
RECURSIVE TgaPixels(_, _)
TgaPixels(data, n) ==
    IF n = 0 THEN <<>>
    ELSE <<data[3], data[2], data[1], data[4]>>
         \o TgaPixels(SubSeq(data, 5, Len(data)), n - 1)

TgaEncode(width, height, data) == <<width, height>> \o TgaPixels(data, width * height)

\* pic2img: the bytes left in the output cursor, and whether it returned Ok.
\* RgbaImage::from_vec is None when the buffer is shorter than width*height*4.
pic2img(width, height, indices, palette) ==
    LET data == PixelData(indices, palette)
    IN  IF Len(data) < width * height * 4
        THEN [ok |-> FALSE, rgba |-> data, buf |-> <<>>]
        ELSE [ok |-> TRUE, rgba |-> data, buf |-> TgaEncode(width, height, data)]

\* width >> i
Shr(x, i) == x \div (2 ^ i)

----------------------------------------------------------------------------
(* The archives: what goldsrc_rs::wad_entries, pic, miptex and font yield.  *)
(* The parser is outside the repository; an entry is drawn from a menu.     *)

\* the palette of every image: 3 entries stand for the 256 of the format
Palette == << <<255, 255, 255>>, <<255, 0, 0>>, <<10, 20, 30>> >>

\* ty: the ContentType; parse: what the entry's parser returns ("ok", "err",
\* and for a MipTexture "nodata": Ok with data None), for Other what
\* read_to_end returns; indices: data.indices, one raster per level; raw: the
\* entry's bytes
Rec(ty, name, parse, width, height, indices, raw) ==
    [ty |-> ty, name |-> name, parse |-> parse, width |-> width,
     height |-> height, indices |-> indices, raw |-> raw]

RecordMenu ==
    << Rec("Picture", "A", "ok", 3, 1, << <<0, 1, 2>> >>, <<>>),
       Rec("Picture", "B", "err", 0, 0, <<>>, <<>>),
       Rec("Font", "A", "ok", 2, 1, << <<2>> >>, <<>>),
       Rec("MipTexture", "A", "ok", 2, 1, << <<0, 2>>, <<>>, <<>>, <<>> >>, <<>>),
       Rec("MipTexture", "B", "err", 0, 0, <<>>, <<>>),
       Rec("MipTexture", "C", "nodata", 2, 1, <<>>, <<>>),
       Rec("Other", "A", "ok", 0, 0, <<>>, <<7, 8, 9>>),
       Rec("Other", "B", "err", 0, 0, <<>>, <<7, 8>>),
       Rec("Unknown", "A", "ok", 0, 0, <<>>, <<>>) >>

\* the entries of one archive: up to MaxRecords menu items, each at most once
\* (the same item may come again in a later archive).  The order of the
\* entries is immaterial to into_par_iter, so one order stands for all.
RECURSIVE Archives(_)
Archives(n) ==
    IF n = 0 THEN {<<>>}
    ELSE LET shorter == Archives(n - 1)
         IN  shorter \cup
             {Append(a, k) : a \in {b \in shorter : Len(b) = n - 1},
                             k \in 1 .. Len(RecordMenu)}

ArchiveMenu ==
    {a \in Archives(MaxRecords) : \A i \in 1 .. Len(a) - 1 : a[i] < a[i + 1]}

----------------------------------------------------------------------------
(* mod.rs: the inode table *)

INode(name, parent, data) == [name |-> name, parent |-> parent, data |-> data]

\* INode::default()
DefaultINode == INode("", None, None)

ROOT_INO == 1
PICS_INO == 2
MIPTEXS_INO == 3
FONTS_INO == 4
OTHER_INO == 5

\* inodes.get(ino as usize)
Get(table, ino) == IF ino \in 0 .. Len(table) - 1 THEN Some(table[ino + 1]) ELSE None

\* INode::file_type
file_type(inode) == IF IsSome(inode.data) THEN "RegularFile" ELSE "Directory"

\* a size that counts one byte more than the content holds
MutSizeOneMore(inode) == IF IsSome(inode.data) THEN Len(Unwrap(inode.data)) + 1 ELSE 0

\* INode::size
size(inode) == IF IsSome(inode.data) THEN Len(Unwrap(inode.data)) ELSE 0

\* INode::resolve_file_attr: the fields that vary
resolve_file_attr(inode, ino) ==
    [ino |-> ino, size |-> size(inode), kind |-> file_type(inode)]

\* a WadFS::new that leaves the category directories to the first record of
\* their type
MutNewTableLazy == << DefaultINode, INode(".", None, None) >>

\* WadFS::new: the sentinel of INodes::empty, the root, the four directories
NewTable ==
    << DefaultINode,
       INode(".", None, None),
       INode("pics", Some(ROOT_INO), None),
       INode("miptexs", Some(ROOT_INO), None),
       INode("fonts", Some(ROOT_INO), None),
       INode("other", Some(ROOT_INO), None) >>

NoReply == [op |-> "none"]

Init ==
    /\ inodes = NewTable
    /\ entries = 0
    /\ result = "none"
    /\ tasks = <<>>
    /\ panicked = FALSE
    /\ phase = "build"
    /\ ingested = {}
    /\ decoded = {}
    /\ reply = NoReply

----------------------------------------------------------------------------
(* main.rs: the startup loop, and mod.rs: append_entries *)

\* an append_entries call has spawned its workers and for_each has not returned
InProgress == result = "running"

\* a rayon worker of for_each, at its entry; idx is the length push_inode read,
\* miptex_ino the handle push_inode returned for a MipTexture's directory
NewTask(rec) ==
    [rec |-> rec, pc |-> "start", idx |-> 0, miptex_ino |-> 0, level |-> 0,
     buf |-> <<>>]

\* the category directory of a Picture, Font or Other entry
CategoryIno(ty) ==
    CASE ty = "Picture" -> PICS_INO
      [] ty = "Font" -> FONTS_INO
      [] ty = "Other" -> OTHER_INO

\* every file named as an image, the Other ones too
MutFileNameExt(rec) == pic_name(rec.name)

\* the name of the file of a Picture, Font or Other entry
FileName(rec) == IF rec.ty = "Other" THEN rec.name ELSE pic_name(rec.name)

\* the record of one pic2img call
Call(width, height, indices, out) ==
    [width |-> width, height |-> height, indices |-> indices,
     rgba |-> out.rgba, ok |-> out.ok]

\* an append_entries that fails after a first entry went into the table
MutAppendEntriesErrLate ==
    /\ phase = "build" /\ result /= "running"
    /\ result' = "Err"
    /\ inodes' = Append(inodes, INode("A", Some(OTHER_INO), Some(<<>>)))
    /\ UNCHANGED <<entries, tasks, panicked, phase, ingested, decoded, reply>>

\* fread(&path) or goldsrc_rs::wad_entries(reader, true)? fails: the call
\* returns Err before any worker exists, and the loop logs it and goes on
AppendEntriesErr ==
    /\ phase = "build" /\ ~InProgress
    /\ result' = "Err"
    /\ UNCHANGED <<inodes, entries, tasks, panicked, phase, ingested, decoded, reply>>

\* wad_entries(..)?.into_par_iter().for_each(..): one worker per entry
AppendEntriesStart ==
    /\ phase = "build" /\ ~InProgress
    /\ \E a \in ArchiveMenu :
          /\ entries + Len(a) <= MaxEntries
          /\ tasks' = [i \in 1 .. Len(a) |-> NewTask(RecordMenu[a[i]])]
          /\ entries' = entries + Len(a)
    /\ result' = "running"
    /\ UNCHANGED <<inodes, panicked, phase, ingested, decoded, reply>>

\* for_each returns, every worker at its end: Ok(())
AppendEntriesOk ==
    /\ phase = "build" /\ InProgress /\ ~panicked
    /\ \A i \in 1 .. Len(tasks) : tasks[i].pc = "done"
    /\ result' = "Ok"
    /\ ingested' = ingested \cup {tasks[i].rec : i \in 1 .. Len(tasks)}
    /\ tasks' = <<>>
    /\ UNCHANGED <<inodes, entries, panicked, phase, decoded, reply>>

\* Picture and Font arms: the parser fails, the worker logs and ends; or it
\* converts the image, builds the INode and enters push_inode, which reads the
\* length of the vector under the read lock
DecodeFile(i) ==
    /\ phase = "build" /\ InProgress
    /\ tasks[i].pc = "start" /\ tasks[i].rec.ty \in {"Picture", "Font"}
    /\ LET rec == tasks[i].rec
           out == pic2img(rec.width, rec.height, rec.indices[1], Palette)
       IN  IF rec.parse = "ok"
           THEN /\ tasks' = [tasks EXCEPT ![i].pc = "push", ![i].buf = out.buf,
                                          ![i].idx = Len(inodes)]
                /\ decoded' = decoded \cup
                       {Call(rec.width, rec.height, rec.indices[1], out)}
           ELSE /\ tasks' = [tasks EXCEPT ![i].pc = "done"]
                /\ decoded' = decoded
    /\ UNCHANGED <<inodes, entries, result, panicked, phase, ingested, reply>>

\* Other arm: read_to_end fills buf, wholly or, on an error, up to the error;
\* the INode is built either way and push_inode reads the length
ReadOther(i) ==
    /\ phase = "build" /\ InProgress
    /\ tasks[i].pc = "start" /\ tasks[i].rec.ty = "Other"
    /\ LET rec == tasks[i].rec
       IN  \E n \in 0 .. Len(rec.raw) :
              /\ rec.parse = "ok" => n = Len(rec.raw)
              /\ tasks' = [tasks EXCEPT ![i].pc = "push", ![i].idx = Len(inodes),
                                        ![i].buf = SubSeq(rec.raw, 1, n)]
    /\ UNCHANGED <<inodes, entries, result, panicked, phase, ingested, decoded, reply>>

\* a push that writes over the stored inode of the same parent and name, when
\* there is one, in place of appending
MutPushFileReplace(i) ==
    /\ phase = "build" /\ InProgress
    /\ tasks[i].pc = "push"
    /\ LET node == INode(FileName(tasks[i].rec),
                         Some(CategoryIno(tasks[i].rec.ty)), Some(tasks[i].buf))
           same == {k \in 1 .. Len(inodes) :
                       inodes[k].parent = node.parent /\ inodes[k].name = node.name}
       IN  inodes' = IF same = {} THEN Append(inodes, node)
                     ELSE [k \in 1 .. Len(inodes) |->
                              IF k \in same THEN INode(node.name, node.parent, Some(<<>>))
                              ELSE inodes[k]]
    /\ tasks' = [tasks EXCEPT ![i].pc = "done"]
    /\ UNCHANGED <<entries, result, panicked, phase, ingested, decoded, reply>>

\* push_inode, its second statement: push under the write lock, return idx
PushFile(i) ==
    /\ phase = "build" /\ InProgress
    /\ tasks[i].pc = "push"
    /\ inodes' = Append(inodes, INode(FileName(tasks[i].rec),
                                      Some(CategoryIno(tasks[i].rec.ty)),
                                      Some(tasks[i].buf)))
    /\ tasks' = [tasks EXCEPT ![i].pc = "done"]
    /\ UNCHANGED <<entries, result, panicked, phase, ingested, decoded, reply>>

\* MipTexture arm: push_inode of the texture's directory reads the length
MipReadLen(i) ==
    /\ phase = "build" /\ InProgress
    /\ tasks[i].pc = "start" /\ tasks[i].rec.ty = "MipTexture"
    /\ tasks' = [tasks EXCEPT ![i].pc = "pushdir", ![i].idx = Len(inodes)]
    /\ UNCHANGED <<inodes, entries, result, panicked, phase, ingested, decoded, reply>>

\* a push_inode that returns the length of the vector after the push
MutMipPushDirAfter(i) ==
    /\ phase = "build" /\ InProgress
    /\ tasks[i].pc = "pushdir"
    /\ inodes' = Append(inodes, INode(tasks[i].rec.name, Some(MIPTEXS_INO), None))
    /\ tasks' = [tasks EXCEPT ![i].miptex_ino = Len(inodes) + 1,
                              ![i].pc = IF tasks[i].rec.parse = "ok"
                                        THEN "level" ELSE "done"]
    /\ UNCHANGED <<entries, result, panicked, phase, ingested, decoded, reply>>

\* ... and pushes; miptex_ino is the length read before.  Then the parser: on
\* Err, or Ok without data, the worker ends with the directory left empty
MipPushDir(i) ==
    /\ phase = "build" /\ InProgress
    /\ tasks[i].pc = "pushdir"
    /\ inodes' = Append(inodes, INode(tasks[i].rec.name, Some(MIPTEXS_INO), None))
    /\ tasks' = [tasks EXCEPT ![i].miptex_ino = tasks[i].idx,
                              ![i].pc = IF tasks[i].rec.parse = "ok"
                                        THEN "level" ELSE "done"]
    /\ UNCHANGED <<entries, result, panicked, phase, ingested, decoded, reply>>

\* for i in 0..MIP_LEVELS: convert the level, build its INode, read the length
MipLevel(i) ==
    /\ phase = "build" /\ InProgress
    /\ tasks[i].pc = "level"
    /\ LET rec == tasks[i].rec
           k == tasks[i].level
           w == Shr(rec.width, k)
           h == Shr(rec.height, k)
           out == pic2img(w, h, rec.indices[k + 1], Palette)
       IN  /\ tasks' = [tasks EXCEPT ![i].pc = "pushlevel", ![i].buf = out.buf,
                                     ![i].idx = Len(inodes)]
           /\ decoded' = decoded \cup {Call(w, h, rec.indices[k + 1], out)}
    /\ UNCHANGED <<inodes, entries, result, panicked, phase, ingested, reply>>

\* ... and push the level's file under miptex_ino
MipPushLevel(i) ==
    /\ phase = "build" /\ InProgress
    /\ tasks[i].pc = "pushlevel"
    /\ inodes' = Append(inodes, INode(mip_level_name(tasks[i].level),
                                      Some(tasks[i].miptex_ino),
                                      Some(tasks[i].buf)))
    /\ tasks' = [tasks EXCEPT ![i].level = tasks[i].level + 1,
                              ![i].pc = IF tasks[i].level + 1 < MIP_LEVELS
                                        THEN "level" ELSE "done"]
    /\ UNCHANGED <<entries, result, panicked, phase, ingested, decoded, reply>>

\* _ => unimplemented!(): the worker panics
Unimplemented(i) ==
    /\ phase = "build" /\ InProgress
    /\ tasks[i].pc = "start" /\ tasks[i].rec.ty = "Unknown"
    /\ tasks' = [tasks EXCEPT ![i].pc = "panic"]
    /\ panicked' = TRUE
    /\ UNCHANGED <<inodes, entries, result, phase, ingested, decoded, reply>>

\* rayon resumes the panic in main once for_each ends; the other workers may
\* or may not have run.  main catches nothing: the process is gone
Unwind ==
    /\ phase = "build" /\ panicked
    /\ phase' = "aborted"
    /\ UNCHANGED <<inodes, entries, result, tasks, panicked, ingested, decoded, reply>>

\* the loop over args.wads is over, its last io::Result gone with the loop
\* body: fuser::mount2
Mount ==
    /\ phase = "build" /\ ~InProgress
    /\ phase' = "serve"
    /\ result' = "none"
    /\ UNCHANGED <<inodes, entries, tasks, panicked, ingested, decoded, reply>>

----------------------------------------------------------------------------
(* mod.rs: impl Filesystem for WadFS *)

\* .iter().enumerate().find(|(_, inode)| ..): the first index at or after k
\* whose inode has this parent and this name
RECURSIVE Find(_, _, _, _)
Find(table, k, parent, name) ==
    IF k >= Len(table) THEN None
    ELSE IF table[k + 1].parent = Some(parent) /\ table[k + 1].name = name
         THEN Some(k)
         ELSE Find(table, k + 1, parent, name)

\* lookup: reply.entry with the attributes of the first match, else ENOENT
LookupReply(table, parent, name) ==
    LET hit == Find(table, 0, parent, name)
    IN  IF IsSome(hit)
        THEN [status |-> "entry",
              attr |-> resolve_file_attr(table[Unwrap(hit) + 1], Unwrap(hit))]
        ELSE [status |-> "ENOENT"]

\* .iter().enumerate().filter(|(_, inode)| inode.parent == Some(ino)): the
\* handles of the children of ino, in the order of the vector
RECURSIVE ChildrenFrom(_, _, _)
ChildrenFrom(table, k, ino) ==
    IF k >= Len(table) THEN <<>>
    ELSE (IF table[k + 1].parent = Some(ino) THEN <<k>> ELSE <<>>)
         \o ChildrenFrom(table, k + 1, ino)

Children(table, ino) == ChildrenFrom(table, 0, ino)

\* offset as usize
AsUsize(x) == x % Modulus

Min(a, b) == IF a <= b THEN a ELSE b

\* the entry reply.add is given for the child at position i (from 0) of kids
DirEntry(table, kids, i) ==
    [ino |-> kids[i + 1], offset |-> i + 1,
     kind |-> file_type(table[kids[i + 1] + 1]), name |-> table[kids[i + 1] + 1].name]

\* readdir: .enumerate().skip(offset as usize).take(5), each entry given to
\* reply.add, which takes it unless the caller's buffer (capacity entries) is
\* full and then returns true: the handler returns at once, and reply.ok() is
\* not called.  status "dropped" is a ReplyDirectory dropped unsent.
ReaddirReply(table, ino, offset, capacity) ==
    LET kids == Children(table, ino)
        first == Min(AsUsize(offset), Len(kids))
        last == Min(first + READDIR_TAKE, Len(kids))
        window == [j \in 1 .. (last - first) |-> DirEntry(table, kids, first + j - 1)]
    IN  IF Len(window) > capacity
        THEN [status |-> "dropped", entries |-> SubSeq(window, 1, capacity)]
        ELSE [status |-> "ok", entries |-> window]

\* getattr
GetattrReply(table, ino) ==
    LET got == Get(table, ino)
    IN  IF IsSome(got)
        THEN [status |-> "attr", attr |-> resolve_file_attr(Unwrap(got), ino)]
        ELSE [status |-> "ENOENT"]

\* a get that clamps the range to the end of the data: a short read
MutSliceGetShort(data, start, end) ==
    IF start <= Len(data)
    THEN [status |-> "data", bytes |-> SubSeq(data, start + 1, Min(end, Len(data)))]
    ELSE [status |-> "EIO"]

\* data.get(start..end): None unless start <= end <= data.len()
SliceGet(data, start, end) ==
    IF start <= end /\ end <= Len(data)
    THEN [status |-> "data", bytes |-> SubSeq(data, start + 1, end)]
    ELSE [status |-> "EIO"]

\* read: start + size as usize is a usize addition.  When it passes the width
\* of usize, a build with overflow checks panics and one without wraps.
ReadReplies(table, ino, offset, length) ==
    LET got == Get(table, ino)
        start == AsUsize(offset)
        sum == start + length
    IN  IF ~IsSome(got) THEN {[status |-> "ENOENT"]}
        ELSE IF ~IsSome(Unwrap(got).data) THEN {[status |-> "EIO"]}
        ELSE IF sum >= Modulus
             THEN {[status |-> "panic"],
                   SliceGet(Unwrap(Unwrap(got).data), start, sum % Modulus)}
             ELSE {SliceGet(Unwrap(Unwrap(got).data), start, sum)}

\* the handles a request may name: those of the table and the first beyond it
Handles == 0 .. Len(inodes)

\* the offsets a readdir may be given: a negative one, and the positions up to
\* one past a full window of take(5)
DirOffsets == (0 - 1) .. (READDIR_TAKE + 1)

\* the offsets a read may be given: the i64 values from -2 to 4
ReadOffsets == {x \in I64 : x >= 0 - 2 /\ x <= 4}

\* the names a lookup may ask for
LookupNames == {"pics", "miptexs", "fonts", "other", "A", "A.tga", "mip_0.tga", "nil"}

\* the session loop is between two requests
Idle == phase = "serve" /\ reply.op = "none"

Lookup ==
    /\ Idle
    /\ \E parent \in Handles, name \in LookupNames :
          reply' = [op |-> "lookup", parent |-> parent, name |-> name,
                    res |-> LookupReply(inodes, parent, name)]
    /\ UNCHANGED <<inodes, entries, result, tasks, panicked, phase, ingested, decoded>>

Readdir ==
    /\ Idle
    /\ \E ino \in Handles, offset \in DirOffsets, capacity \in 1 .. MaxCapacity :
          reply' = [op |-> "readdir", ino |-> ino, offset |-> offset,
                    capacity |-> capacity,
                    res |-> ReaddirReply(inodes, ino, offset, capacity)]
    /\ UNCHANGED <<inodes, entries, result, tasks, panicked, phase, ingested, decoded>>

Getattr ==
    /\ Idle
    /\ \E ino \in Handles :
          reply' = [op |-> "getattr", ino |-> ino, res |-> GetattrReply(inodes, ino)]
    /\ UNCHANGED <<inodes, entries, result, tasks, panicked, phase, ingested, decoded>>

\* a read that consumes what it returns: the bytes up to the end of the range
\* are taken off the file's content
MutReadDrain ==
    /\ Idle
    /\ \E ino \in Handles, offset \in ReadOffsets, length \in U32 :
          \E res \in ReadReplies(inodes, ino, offset, length) :
             /\ reply' = [op |-> "read", ino |-> ino, offset |-> offset,
                          size |-> length, res |-> res]
             /\ panicked' = (res.status = "panic")
             /\ phase' = IF res.status = "panic" THEN "aborted" ELSE phase
             /\ inodes' = IF res.status = "data"
                          THEN [inodes EXCEPT ![ino + 1].data =
                                   Some(SubSeq(Unwrap(@), AsUsize(offset) + length + 1,
                                               Len(Unwrap(@))))]
                          ELSE inodes
    /\ UNCHANGED <<entries, result, tasks, ingested, decoded>>

Read ==
    /\ Idle
    /\ \E ino \in Handles, offset \in ReadOffsets, length \in U32 :
          \E res \in ReadReplies(inodes, ino, offset, length) :
             /\ reply' = [op |-> "read", ino |-> ino, offset |-> offset,
                          size |-> length, res |-> res]
             /\ panicked' = (res.status = "panic")
             /\ phase' = IF res.status = "panic" THEN "aborted" ELSE phase
    /\ UNCHANGED <<inodes, entries, result, tasks, ingested, decoded>>

\* the reply is sent; the session loop takes the next request
Replied ==
    /\ phase = "serve" /\ reply.op /= "none"
    /\ reply' = NoReply
    /\ UNCHANGED <<inodes, entries, result, tasks, panicked, phase, ingested, decoded>>

----------------------------------------------------------------------------
Workers == 1 .. Len(tasks)

Next ==
    \/ AppendEntriesErr
    \/ AppendEntriesStart
    \/ AppendEntriesOk
    \/ \E i \in Workers : DecodeFile(i)
    \/ \E i \in Workers : ReadOther(i)
    \/ \E i \in Workers : PushFile(i)
    \/ \E i \in Workers : MipReadLen(i)
    \/ \E i \in Workers : MipPushDir(i)
    \/ \E i \in Workers : MipLevel(i)
    \/ \E i \in Workers : MipPushLevel(i)
    \/ \E i \in Workers : Unimplemented(i)
    \/ Unwind
    \/ Mount
    \/ Lookup
    \/ Readdir
    \/ Getattr
    \/ Read
    \/ Replied

Spec == Init /\ [][Next]_vars

----------------------------------------------------------------------------
(* A command line of READDIR_TAKE + 1 archives of one Other entry each: the *)
(* directory other gets more children than one take(5) window holds.        *)

\* args.wads: the entries of the archives, in the order of the command line
WideWads ==
    << << Rec("Other", "A", "ok", 0, 0, <<>>, <<7>>) >>,
       << Rec("Other", "B", "ok", 0, 0, <<>>, <<7>>) >>,
       << Rec("Other", "C", "ok", 0, 0, <<>>, <<7>>) >>,
       << Rec("Other", "D", "ok", 0, 0, <<>>, <<7>>) >>,
       << Rec("Other", "E", "ok", 0, 0, <<>>, <<7>>) >>,
       << Rec("Other", "F", "ok", 0, 0, <<>>, <<7>>) >> >>

\* the reply buffers of this command line's requests: up to one entry more
\* than the directory other ends with
WideCapacities == 1 .. READDIR_TAKE + 2

\* the loop of main takes the next archive of the command line
AppendEntriesStartWide ==
    /\ phase = "build" /\ ~InProgress
    /\ entries < Len(WideWads)
    /\ tasks' = [i \in 1 .. Len(WideWads[entries + 1]) |->
                    NewTask(WideWads[entries + 1][i])]
    /\ entries' = entries + Len(WideWads[entries + 1])
    /\ result' = "running"
    /\ UNCHANGED <<inodes, panicked, phase, ingested, decoded, reply>>

\* readdir, with a buffer of WideCapacities
ReaddirWide ==
    /\ Idle
    /\ \E ino \in Handles, offset \in DirOffsets, capacity \in WideCapacities :
          reply' = [op |-> "readdir", ino |-> ino, offset |-> offset,
                    capacity |-> capacity,
                    res |-> ReaddirReply(inodes, ino, offset, capacity)]
    /\ UNCHANGED <<inodes, entries, result, tasks, panicked, phase, ingested, decoded>>

NextWide ==
    \/ AppendEntriesStartWide
    \/ AppendEntriesOk
    \/ \E i \in Workers : ReadOther(i)
    \/ \E i \in Workers : PushFile(i)
    \/ Mount
    \/ ReaddirWide
    \/ Replied

SpecWide == Init /\ [][NextWide]_vars

----------------------------------------------------------------------------
(* Properties of the specification *)

InTable(h) == h \in 0 .. Len(inodes) - 1

\* the four category directories: name, handle, content type
Categories ==
    { <<"pics", PICS_INO, "Picture">>, <<"miptexs", MIPTEXS_INO, "MipTexture">>,
      <<"fonts", FONTS_INO, "Font">>, <<"other", OTHER_INO, "Other">> }

Ingested(ty) == \E rec \in ingested : rec.ty = ty

C2_ReadExactRange ==
    (reply.op = "read" /\ reply.offset >= 0) =>
        IF ~InTable(reply.ino) THEN reply.res = [status |-> "ENOENT"]
        ELSE IF inodes[reply.ino + 1].data = None THEN reply.res = [status |-> "EIO"]
        ELSE LET content == inodes[reply.ino + 1].data[1]
             IN  IF reply.offset + reply.size <= Len(content)
                 THEN reply.res =
                        [status |-> "data",
                         bytes |-> [i \in 1 .. reply.size |-> content[reply.offset + i]]]
                 ELSE reply.res = [status |-> "EIO"]

\* a read inside a file, away from its start, returned bytes
C2_Witness ==
    /\ reply.op = "read" /\ reply.offset > 0 /\ reply.size > 1
    /\ reply.res.status = "data" /\ Len(reply.res.bytes) = reply.size

\* what the caller of readdir receives: the entries of a reply that was sent.
\* fuser answers a reply dropped unsent with an error carrying no entries.
Delivered(res) == IF res.status = "ok" THEN res.entries ELSE <<>>

\* the handles a caller collects by calling readdir from offset on, passing
\* each time the position of the last entry it got, until it gets none
RECURSIVE ListChain(_, _, _, _, _)
ListChain(table, ino, offset, capacity, fuel) ==
    LET got == Delivered(ReaddirReply(table, ino, offset, capacity))
    IN  IF got = <<>> \/ fuel = 0 THEN <<>>
        ELSE [j \in 1 .. Len(got) |-> got[j].ino]
             \o ListChain(table, ino, got[Len(got)].offset, capacity, fuel - 1)

\* C3: for every directory and every buffer capacity >= 1, the chain of readdir
\* calls from offset 0 yields every child of the directory once, in creation
\* order
C3_Pagination ==
    phase = "serve" =>
        \A ino \in 1 .. Len(inodes) - 1, capacity \in 1 .. MaxCapacity :
            inodes[ino + 1].data = None =>
                ListChain(inodes, ino, 0, capacity, Len(inodes))
                    = Children(inodes, ino)

MipNames == [k \in 1 .. MIP_LEVELS |-> mip_level_name(k - 1)]

\* the names of the children of ino, in creation order
ChildNames(ino) ==
    LET kids == Children(inodes, ino)
    IN  [j \in 1 .. Len(kids) |-> inodes[kids[j] + 1].name]

\* C4: once append_entries has returned, every MipTexture record that parsed
\* has a directory of its name under miptexs whose children are exactly the
\* files mip_0.tga .. mip_3.tga, in this order
C4_MipChildren ==
    \A rec \in ingested :
        (rec.ty = "MipTexture" /\ rec.parse = "ok") =>
            \E d \in 1 .. Len(inodes) - 1 :
                /\ inodes[d + 1] = INode(rec.name, Some(MIPTEXS_INO), None)
                /\ ChildNames(d) = MipNames
                /\ \A k \in 1 .. MIP_LEVELS :
                      inodes[Children(inodes, d)[k] + 1].data /= None

C6_WhiteOnlyTransparent ==
    \A call \in decoded :
        \A j \in 1 .. Len(call.indices) :
            LET rgb == Palette[call.indices[j] + 1]
            IN  SubSeq(call.rgba, 4 * j - 3, 4 * j)
                    = IF rgb = <<255, 255, 255>>
                      THEN <<0, 0, 0, 0>>
                      ELSE <<rgb[1], rgb[2], rgb[3], 255>>

\* the decode of a Picture or Font record fails: its parser, or pic2img
DecodeFails(rec) ==
    \/ rec.parse = "err"
    \/ ~pic2img(rec.width, rec.height, rec.indices[1], Palette).ok

\* a file of this name and parent is in the table, with size 0, and lookup
\* finds a file of size 0 under this name
EmptyFileVisible(parent, name) ==
    /\ \E h \in 1 .. Len(inodes) - 1 :
          /\ inodes[h + 1].parent = Some(parent) /\ inodes[h + 1].name = name
          /\ GetattrReply(inodes, h).attr.size = 0
          /\ GetattrReply(inodes, h).attr.kind = "RegularFile"
    /\ LookupReply(inodes, parent, name).status = "entry"

\* C7: every Picture or Font record whose decode fails, and every level of a
\* MipTexture record whose parser fails, still has its file, of size 0
C7_FailedDecodeKeepsFile ==
    \A rec \in ingested :
        /\ (rec.ty = "Picture" /\ DecodeFails(rec))
              => EmptyFileVisible(PICS_INO, pic_name(rec.name))
        /\ (rec.ty = "Font" /\ DecodeFails(rec))
              => EmptyFileVisible(FONTS_INO, pic_name(rec.name))
        /\ (rec.ty = "MipTexture" /\ rec.parse = "err")
              => \E d \in 1 .. Len(inodes) - 1 :
                    /\ inodes[d + 1] = INode(rec.name, Some(MIPTEXS_INO), None)
                    /\ \A k \in 0 .. MIP_LEVELS - 1 :
                          EmptyFileVisible(d, mip_level_name(k))

\* C8: no worker panics on an entry of a content type other than the four: the
\* entry is reported and the ingestion goes on
C8_UnknownTypeNoPanic ==
    /\ \A i \in 1 .. Len(tasks) : tasks[i].pc /= "panic"
    /\ phase = "build" => ~panicked

\* C9: an append_entries call that returns Err leaves the table, the workers
\* and the loop as they were
C9_ErrStep ==
    [][result' = "Err" =>
          /\ UNCHANGED <<inodes, entries, tasks, panicked, phase, ingested, decoded>>
          /\ phase = "build"]_vars

\* C9: ... and the loop goes on: after the failed call main can ingest the
\* next archive, fail on it too, or mount
C9_LoopGoesOn ==
    result = "Err" =>
        /\ phase = "build" /\ ~panicked /\ tasks = <<>>
        /\ ENABLED AppendEntriesStart
        /\ ENABLED Mount

\* C9: a failed archive is skipped and the rest are ingested
C9_FailedArchiveSkipped == C9_ErrStep /\ []C9_LoopGoesOn

\* an archive failed after another one had been ingested
C9_Witness == result = "Err" /\ Len(inodes) > Len(NewTable) /\ ingested /= {}

\* C10: getattr and read of handle 0 are answered ENOENT, no lookup and no
\* readdir yields handle 0, and the root is handle 1
C10_Handle0Invalid ==
    /\ (reply.op \in {"getattr", "read"} /\ reply.ino = 0)
          => reply.res.status = "ENOENT"
    /\ (reply.op = "lookup" /\ reply.res.status = "entry")
          => reply.res.attr.ino /= 0
    /\ reply.op = "readdir"
          => \A j \in 1 .. Len(reply.res.entries) : reply.res.entries[j].ino /= 0
    /\ inodes[ROOT_INO + 1] = INode(".", None, None)

\* what C11 says getattr answers for a handle
AttrExpected(h) ==
    IF ~InTable(h) THEN [status |-> "ENOENT"]
    ELSE IF inodes[h + 1].data = None
         THEN [status |-> "attr",
               attr |-> [ino |-> h, size |-> 0, kind |-> "Directory"]]
         ELSE [status |-> "attr",
               attr |-> [ino |-> h, size |-> Len(inodes[h + 1].data[1]),
                         kind |-> "RegularFile"]]

\* C11: every getattr reply gives, for a handle of the table, size 0 and kind
\* Directory for a directory, kind RegularFile and the length of the content
\* for a file, and ENOENT for a handle outside the table; and between two
\* requests of the serve phase this is what getattr answers for every handle,
\* and for every file a read of size bytes at 0 returns the content and a read
\* of size + 1 bytes at 0 is answered EIO
C11_AttrSizeMatchesRead ==
    /\ reply.op = "getattr" => reply.res = AttrExpected(reply.ino)
    /\ Idle =>
          \A h \in Handles :
              LET got == GetattrReply(inodes, h)
              IN  /\ got = AttrExpected(h)
                  /\ (got.status = "attr" /\ got.attr.kind = "RegularFile") =>
                        /\ ReadReplies(inodes, h, 0, got.attr.size)
                              = {[status |-> "data", bytes |-> inodes[h + 1].data[1]]}
                        /\ ReadReplies(inodes, h, 0, got.attr.size + 1)
                              = {[status |-> "EIO"]}

\* getattr of a file that has content answered its size, and the read of that
\* many bytes at 0 gives the content
C11_Witness ==
    /\ reply.op = "getattr" /\ reply.res.status = "attr"
    /\ reply.res.attr.kind = "RegularFile" /\ reply.res.attr.size > 0
    /\ [status |-> "data", bytes |-> inodes[reply.ino + 1].data[1]]
          \in ReadReplies(inodes, reply.ino, 0, reply.res.attr.size)

\* what a read that returns gives for a handle and a range of a table
ReadValue(table, ino, offset, length) ==
    ReadReplies(table, ino, offset, length) \ {[status |-> "panic"]}

\* C12: in the serve phase no step, whatever request it serves, changes the
\* table that read slices, and every read that returns gives the one result
\* its handle and range have in that table, before the step as after it: two
\* reads of the same handle and range that return are equal
C12_ReadDeterministic ==
    [][phase = "serve" =>
          /\ inodes' = inodes
          /\ (reply'.op = "read" /\ reply'.res.status /= "panic") =>
                /\ ReadValue(inodes, reply'.ino, reply'.offset, reply'.size)
                      = {reply'.res}
                /\ ReadValue(inodes', reply'.ino, reply'.offset, reply'.size)
                      = {reply'.res}]_vars

\* a read of the first bytes of an image file under pics returned them
C12_Witness ==
    /\ reply.op = "read" /\ reply.offset = 0 /\ reply.size > 0
    /\ reply.res.status = "data" /\ InTable(reply.ino)
    /\ inodes[reply.ino + 1].parent = Some(PICS_INO)
    /\ reply.res.bytes = SubSeq(inodes[reply.ino + 1].data[1], 1, reply.size)

\* C13: every push_inode call returns the index at which it stores its node:
\* in every step in which a worker pushes, the length the worker read (what
\* the call returns) is the length of the vector at the push
C13_PushReturnsIndex ==
    [][Len(inodes') > Len(inodes) =>
          \A i \in 1 .. Len(tasks) :
              tasks'[i] /= tasks[i] => tasks[i].idx = Len(inodes)]_vars

\* the inode reached from h by following parents n times, or the last one
\* that has a parent
RECURSIVE Ancestor(_, _)
Ancestor(h, n) ==
    IF n = 0 \/ ~InTable(h) \/ inodes[h + 1].parent = None THEN h
    ELSE Ancestor(inodes[h + 1].parent[1], n - 1)

\* C14: in every state the root has no parent, and every inode of handle 2 or
\* more has a parent p with 1 <= p < its handle, and reaches the root by
\* following parents.  (The walk to the root is made in the states without a
\* reply: a request leaves the table as it is.)
C14_ParentsEarlier ==
    /\ inodes[ROOT_INO + 1].parent = None
    /\ \A h \in 2 .. Len(inodes) - 1 :
          /\ inodes[h + 1].parent /= None
          /\ inodes[h + 1].parent[1] >= ROOT_INO
          /\ inodes[h + 1].parent[1] < h
    /\ reply = NoReply =>
          \A h \in 2 .. Len(inodes) - 1 : Ancestor(h, Len(inodes)) = ROOT_INO

\* ingestion is under way and the table holds an inode three levels below the
\* root
C14_Witness ==
    /\ phase = "build" /\ InProgress
    /\ \E h \in 2 .. Len(inodes) - 1 :
          /\ inodes[h + 1].parent /= None
          /\ inodes[h + 1].parent[1] > OTHER_INO
          /\ Ancestor(h, 2) /= ROOT_INO /\ Ancestor(h, 3) = ROOT_INO

\* C15: every step leaves each stored inode as it was and at most appends to
\* the table, and every step of the serve phase, a request answered with a
\* result or with an error, leaves the whole table as it was
C15_AppendOnly ==
    [][/\ Len(inodes') >= Len(inodes)
       /\ \A k \in 1 .. Len(inodes) : inodes'[k] = inodes[k]
       /\ phase = "serve" => inodes' = inodes]_vars

\* a request was answered with an error in the serve phase, on a table that
\* ingestion has grown by two inodes or more
C15_Witness ==
    /\ phase = "serve" /\ Len(inodes) >= Len(NewTable) + 2
    /\ reply.op \in {"lookup", "getattr", "read"}
    /\ reply.res.status \in {"ENOENT", "EIO"}

\* the children of the directory of a readdir request from its offset on
Remaining(ino, offset) ==
    LET n == Len(Children(inodes, ino))
    IN  n - Min(AsUsize(offset), n)

\* C16: a readdir call gives fewer entries than the directory has children
\* from the offset on only when its buffer is full: whenever the handler has
\* added fewer entries than remain, it has added as many as the buffer holds
C16_StopsOnlyWhenFull ==
    reply.op = "readdir" =>
        (Len(reply.res.entries) < Remaining(reply.ino, reply.offset)
            => Len(reply.res.entries) >= reply.capacity)

\* the handles of the inodes of this parent and this name
Matches(parent, name) ==
    {h \in 0 .. Len(inodes) - 1 :
        inodes[h + 1].parent = Some(parent) /\ inodes[h + 1].name = name}

\* what C17 says lookup answers: the smallest matching handle with the
\* attributes of its inode, ENOENT when nothing matches
LookupExpected(parent, name) ==
    IF Matches(parent, name) = {} THEN [status |-> "ENOENT"]
    ELSE LET h == CHOOSE m \in Matches(parent, name) :
                      \A g \in Matches(parent, name) : m <= g
         IN  [status |-> "entry",
              attr |-> [ino |-> h,
                        size |-> IF inodes[h + 1].data = None THEN 0
                                 ELSE Len(inodes[h + 1].data[1]),
                        kind |-> IF inodes[h + 1].data = None THEN "Directory"
                                 ELSE "RegularFile"]]

\* C17: lookup(parent, name) answers the inode of smallest handle among those
\* of this parent and name, with its attributes, and ENOENT exactly when there
\* is none, as when the parent is no handle of the table or is a file
C17_LookupFirstMatch ==
    /\ \A parent \in Handles, name \in LookupNames :
          LookupReply(inodes, parent, name) = LookupExpected(parent, name)
    /\ reply.op = "lookup" => reply.res = LookupExpected(reply.parent, reply.name)
    /\ \A parent \in Handles :
          (~InTable(parent) \/ inodes[parent + 1].data /= None)
              => \A name \in LookupNames :
                    LookupReply(inodes, parent, name) = [status |-> "ENOENT"]

\* C18: in every state the parent of every inode is a directory, and the
\* handle a MipTexture worker holds for its directory, the parent it gives its
\* level files, is that of the directory it pushed for its record
C18_ParentIsDirectory ==
    /\ \A h \in 2 .. Len(inodes) - 1 :
          /\ inodes[h + 1].parent /= None
          /\ InTable(inodes[h + 1].parent[1])
          /\ inodes[inodes[h + 1].parent[1] + 1].data = None
    /\ \A i \in 1 .. Len(tasks) :
          tasks[i].pc \in {"level", "pushlevel"} =>
              /\ InTable(tasks[i].miptex_ino)
              /\ inodes[tasks[i].miptex_ino + 1]
                    = INode(tasks[i].rec.name, Some(MIPTEXS_INO), None)

\* C19: whenever no append_entries call is under way, no two inodes of the
\* same parent have the same name, and a lookup of the parent and the name of
\* any inode but the root answers that inode
C19_NamesUnique ==
    ~InProgress =>
        /\ \A h, g \in 2 .. Len(inodes) - 1 :
              (inodes[h + 1].parent = inodes[g + 1].parent
               /\ inodes[h + 1].name = inodes[g + 1].name) => h = g
        /\ \A h \in 2 .. Len(inodes) - 1 :
              LET found == LookupReply(inodes, inodes[h + 1].parent[1],
                                       inodes[h + 1].name)
              IN  found.status = "entry" /\ found.attr.ino = h

\* C20: a read of a file at any offset, a negative one too, and any length is
\* never answered by a panic; it is answered EIO whenever the range from
\* offset to offset + length, taken as integers, is not within the content,
\* and with exactly the bytes of that range otherwise
C20_ReadNoWrap ==
    (reply.op = "read" /\ InTable(reply.ino)
     /\ inodes[reply.ino + 1].data /= None) =>
        LET content == inodes[reply.ino + 1].data[1]
        IN  /\ reply.res.status /= "panic"
            /\ ~panicked
            /\ IF reply.offset >= 0 /\ reply.offset + reply.size <= Len(content)
               THEN reply.res =
                      [status |-> "data",
                       bytes |-> [i \in 1 .. reply.size |-> content[reply.offset + i]]]
               ELSE reply.res = [status |-> "EIO"]

====
